---- MODULE Spec2Model ----
(***************************************************************************)
(* Codebase-snapshot pipeline of the SaaS builder:                         *)
(*   - the tree builder (generateAST) and its request handler,             *)
(*   - the archive streamer (addToZip) and its request handler,            *)
(*   - the tree replayer and the environment file of a deployment,         *)
(*   - the deploy handler with the Vercel project/deployment/polling code, *)
(*   - the builder page (exclusion list, cached tree, deploy button),      *)
(*   - deploy requests served side by side on the server's disk.           *)
(* Strings are sequences of one-character strings, so that prefix tests,   *)
(* regular expressions and joins are computed and not assumed.             *)
(***************************************************************************)
EXTENDS Integers, Sequences, FiniteSets, TLC

VARIABLES
    disk,        \* the filesystem below process.cwd(): absolute path -> entry
    buildResp,   \* the answer of the generate-ast handler, NoResponse before
    buildReq,    \* the body of the generate-ast request being answered
    dpc,         \* where the deploy handler stands (what it awaits)
    deployReq,   \* the deploy request body and the server environment
    tempDirExists, \* the handler's tempDir is on disk
    cleanup,     \* the handler's `cleanup` flag
    calls,       \* the side effects the handler has started, in order
    failedStep,  \* the first pipeline step that failed, "none" if none did
    remote,      \* GitHub and Vercel: repository, project, deployment
    poll,        \* waitForDeployment: loop index, fetches, last state seen
    deployResp,  \* the answer of the deploy handler, NoResponse before
    zipReq,      \* the body of the download-zip request being answered
    zip,         \* the download-zip handler: archive queue and response
    firstResp,   \* the tree answered before it was replayed to disk
    callArgs,    \* the arguments of a function called on its own
    callResult,  \* what that call returned, NoResult before
    ui,          \* the builder page: exclusion list, cached tree, deploy body
    clock,       \* Date.now() of the server
    jobs         \* deploy requests served side by side: position and tempDir

buildVars == <<disk, buildResp, buildReq>>
deployVars == <<dpc, deployReq, tempDirExists, cleanup, calls, failedStep,
                remote, poll, deployResp>>
restVars == <<zipReq, zip, firstResp, callArgs, callResult, ui, clock, jobs>>
vars == <<disk, buildResp, buildReq, dpc, deployReq, tempDirExists, cleanup,
          calls, failedStep, remote, poll, deployResp, zipReq, zip, firstResp,
          callArgs, callResult, ui, clock, jobs>>

----------------------------------------------------------------------------
(* Bounds of the model *)

MaxEntries == 3      \* entries created below the project root
MaxDepth == 3        \* nesting depth of entries below the project root
MaxSegments == 2     \* segments of a path handed to the exclusion matcher
MaxPatterns == 2     \* patterns of a list handed to the exclusion matcher
MaxErrors == 2
MaxClock == 2       \* 'error' events one archive emits

----------------------------------------------------------------------------
(* Strings *)

EmptyString == << >>
Sep == <<"/">>

StartsWith(s, prefix) ==
    /\ Len(prefix) <= Len(s)
    /\ SubSeq(s, 1, Len(prefix)) = prefix

Includes(s, c) == \E i \in 1..Len(s) : s[i] = c

\* collation rank of the characters that occur in entry names
CharRank(c) ==
    CASE c = "." -> 1
      [] c = "a" -> 2
      [] c = "b" -> 3
      [] c = "c" -> 4
      [] c = "d" -> 5
      [] OTHER -> 6

RECURSIVE localeCompareFrom(_, _, _)
localeCompareFrom(a, b, i) ==
    IF i > Len(a) /\ i > Len(b) THEN 0
    ELSE IF i > Len(a) THEN -1
    ELSE IF i > Len(b) THEN 1
    ELSE IF CharRank(a[i]) < CharRank(b[i]) THEN -1
    ELSE IF CharRank(a[i]) > CharRank(b[i]) THEN 1
    ELSE localeCompareFrom(a, b, i + 1)

localeCompare(a, b) == localeCompareFrom(a, b, 1)

----------------------------------------------------------------------------
(* Paths: an absolute path is a sequence of segments (names) *)

N_srv == <<"s","r","v">>
N_app == <<"a","p","p">>
N_a == <<"a">>
N_b == <<"b">>
N_c == <<"c">>

Names == {N_a, N_b, N_c}

ProjectRoot == <<N_srv, N_app>>
NoPath == << >>

PathJoin(dirPath, entry) == Append(dirPath, entry)

PathBasename(p) == IF Len(p) = 0 THEN EmptyString ELSE p[Len(p)]

RECURSIVE JoinSegments(_)
JoinSegments(segs) ==
    IF Len(segs) = 0 THEN EmptyString
    ELSE IF Len(segs) = 1 THEN segs[1]
    ELSE segs[1] \o Sep \o JoinSegments(Tail(segs))

\* a relative path that is the last segment alone
PathRelative_Basename(from, to) == PathBasename(to)

\* path.relative(from, to) for a path `to` at or below `from`
PathRelative(from, to) == JoinSegments(SubSeq(to, Len(from) + 1, Len(to)))

----------------------------------------------------------------------------
(* The filesystem *)

MAX_FILE_SIZE == 1048576

TextFile  == [kind |-> "file", size |-> 3, readable |-> TRUE,
              text |-> <<"x", "\n", "y">>, byteLength |-> 3]
EmptyFile == [kind |-> "file", size |-> 0, readable |-> TRUE,
              text |-> EmptyString, byteLength |-> 0]
HugeFile  == [kind |-> "file", size |-> MAX_FILE_SIZE + 1, readable |-> TRUE,
              text |-> EmptyString, byteLength |-> MAX_FILE_SIZE + 1]
LockedFile == [kind |-> "file", size |-> 3, readable |-> FALSE,
              text |-> EmptyString, byteLength |-> 3]
\* exactly at the cap, and read as it is
CapFile   == [kind |-> "file", size |-> MAX_FILE_SIZE, readable |-> TRUE,
              text |-> <<"z">>, byteLength |-> MAX_FILE_SIZE]
\* at the cap on disk, longer once decoded: every invalid byte is read as
\* U+FFFD, which Buffer.byteLength counts as three bytes
BinaryFile == [kind |-> "file", size |-> MAX_FILE_SIZE, readable |-> TRUE,
              text |-> <<"?", "?">>, byteLength |-> MAX_FILE_SIZE + 2]
\* an entry readdir lists but stat cannot follow (dangling link, lost race)
BrokenEntry == [kind |-> "broken"]
EmptyDir == [kind |-> "dir", listing |-> << >>]

FileEntries == {TextFile, HugeFile}
NewEntries == FileEntries \cup {BrokenEntry, EmptyDir}
AllFileEntries == {TextFile, EmptyFile, HugeFile, LockedFile, CapFile, BinaryFile}

\* fs.statSync: throws for a missing path and for a dangling link
StatThrows(p) == p \notin DOMAIN disk \/ disk[p].kind = "broken"

Depth(p) == Len(p) - Len(ProjectRoot)

----------------------------------------------------------------------------
(* Exclusion matcher of the tree builder *)

\* exclude.replace(/\*/g, ".*")
RECURSIVE ReplaceStar(_)
ReplaceStar(exclude) ==
    IF Len(exclude) = 0 THEN EmptyString
    ELSE (IF Head(exclude) = "*" THEN <<".", "*">> ELSE <<Head(exclude)>>)
            \o ReplaceStar(Tail(exclude))

AtomMatches(atom, ch) == IF atom = "." THEN ch # "\n" ELSE atom = ch

\* new RegExp(`^${pattern}$`).test(s): atoms and starred atoms, anchored
RECURSIVE RegexMatchFrom(_, _, _, _)
RegexMatchFrom(re, i, s, j) ==
    IF i > Len(re) THEN j > Len(s)
    ELSE IF i < Len(re) /\ re[i + 1] = "*"
         THEN \/ RegexMatchFrom(re, i + 2, s, j)
              \/ /\ j <= Len(s)
                 /\ AtomMatches(re[i], s[j])
                 /\ RegexMatchFrom(re, i, s, j + 1)
         ELSE /\ j <= Len(s)
              /\ AtomMatches(re[i], s[j])
              /\ RegexMatchFrom(re, i + 1, s, j + 1)

RegexTest(pattern, s) == RegexMatchFrom(pattern, 1, s, 1)

\* the callback of excludeFiles.some(...)
excludeMatches(relativePath, name, exclude) ==
    IF relativePath = exclude \/ name = exclude THEN TRUE
    ELSE IF StartsWith(relativePath, exclude \o Sep) THEN TRUE
    ELSE IF Includes(exclude, "*")
         THEN LET pattern == ReplaceStar(exclude)
              IN RegexTest(pattern, relativePath) \/ RegexTest(pattern, name)
         ELSE FALSE

shouldExclude(relativePath, name, excludeFiles) ==
    \E k \in 1..Len(excludeFiles) :
        excludeMatches(relativePath, name, excludeFiles[k])

\* `new RegExp(...)` throws a SyntaxError: of the patterns that are not
\* regular expressions, those with a group that is opened and never closed
InvalidRegex(pattern) == Includes(pattern, "(") /\ ~Includes(pattern, ")")

\* excludeFiles.some(...) throws: the callback reaches `new RegExp` with an
\* invalid pattern before any pattern returned true
matcherThrows(relativePath, name, excludeFiles) ==
    \E k \in 1..Len(excludeFiles) :
        LET exclude == excludeFiles[k]
        IN /\ Includes(exclude, "*")
           /\ InvalidRegex(ReplaceStar(exclude))
           /\ ~(relativePath = exclude \/ name = exclude)
           /\ ~StartsWith(relativePath, exclude \o Sep)
           /\ \A j \in 1..(k - 1) :
                 ~excludeMatches(relativePath, name, excludeFiles[j])

----------------------------------------------------------------------------
(* Initial values of the remaining state *)

NoZipRequest == [method |-> "none", excludeFiles |-> << >>]
NoZip == [pc |-> "idle"]
NoCall == [fn |-> "none"]
NoResult == [fn |-> "none"]

----------------------------------------------------------------------------
(* Exclusion matcher of the archive streamer (download-zip.js) *)

\* the callback of excludeFiles.some(...) in download-zip.js
zipExcludeMatches(filePath, relativePath, exclude) ==
    IF relativePath = exclude \/ PathBasename(filePath) = exclude THEN TRUE
    ELSE IF \/ StartsWith(relativePath, exclude \o Sep)
            \/ StartsWith(relativePath, exclude \o <<"/">>) THEN TRUE
    ELSE IF Includes(exclude, "*")
         THEN LET pattern == ReplaceStar(exclude)
              IN \/ RegexTest(pattern, relativePath)
                 \/ RegexTest(pattern, PathBasename(filePath))
         ELSE FALSE

zipShouldExclude(filePath, relativePath, excludeFiles) ==
    \E k \in 1..Len(excludeFiles) :
        zipExcludeMatches(filePath, relativePath, excludeFiles[k])

\* excludeFiles.some(...) of download-zip.js throws on an invalid pattern
zipMatcherThrows(filePath, relativePath, excludeFiles) ==
    \E k \in 1..Len(excludeFiles) :
        LET exclude == excludeFiles[k]
        IN /\ Includes(exclude, "*")
           /\ InvalidRegex(ReplaceStar(exclude))
           /\ ~(relativePath = exclude \/ PathBasename(filePath) = exclude)
           /\ ~StartsWith(relativePath, exclude \o Sep)
           /\ ~StartsWith(relativePath, exclude \o <<"/">>)
           /\ \A j \in 1..(k - 1) :
                 ~zipExcludeMatches(filePath, relativePath, excludeFiles[j])

----------------------------------------------------------------------------
(* The two matchers called on their own *)

N_app_log == <<"a","p","p",".","l","o","g">>
N_applog_txt == <<"a","p","p","l","o","g",".","t","x","t">>
N_blog == <<"b","l","o","g">>
N_dot_log == <<".","l","o","g">>

MatcherNames == {N_a, N_app_log, N_applog_txt, N_blog, N_dot_log}

P_star_log == <<"*",".","l","o","g">>
P_a == <<"a">>
P_a_blog == <<"a","/","b","l","o","g">>
P_a_star == <<"a","*">>

MatcherPatterns == {P_star_log, P_a, P_a_blog, P_a_star}

SeqsUpTo(S, n) == UNION {[1..k -> S] : k \in 0..n}

\* both copies of the matcher asked about one path below the project root
MatcherCall(segments, excludeFiles) ==
    LET filePath == ProjectRoot \o segments
        relativePath == PathRelative(ProjectRoot, filePath)
    IN /\ callArgs = NoCall
       /\ callArgs' = [fn |-> "shouldExclude", filePath |-> filePath,
                        relativePath |-> relativePath,
                        excludeFiles |-> excludeFiles]
       /\ callResult' =
            [fn |-> "shouldExclude",
             builder |-> shouldExclude(relativePath, PathBasename(filePath),
                                       excludeFiles),
             zip |-> zipShouldExclude(filePath, relativePath, excludeFiles)]
       /\ UNCHANGED <<buildVars, deployVars, zipReq, zip, firstResp, ui, clock, jobs>>

NextMatcher ==
    \E segments \in SeqsUpTo(MatcherNames, MaxSegments) \ {<< >>},
       excludeFiles \in SeqsUpTo(MatcherPatterns, MaxPatterns) :
        MatcherCall(segments, excludeFiles)

----------------------------------------------------------------------------
(* Tree nodes and the aggregate functions *)

Null == [type |-> "null"]

\* a JavaScript array seen as a value: it has no `type` and no `children`
ArrayValue(elements) == [type |-> "undefined", elements |-> elements]

RECURSIVE countFiles(_)
RECURSIVE countLines(_)
RECURSIVE countDirectories(_)

\* a file count that leaves out the files skipped for their size
countFiles_SkipSkipped(node) ==
    IF node.type = "file" THEN (IF "skipped" \in DOMAIN node THEN 0 ELSE 1)
    ELSE IF node.type = "directory"
         THEN LET F[k \in 0..Len(node.children)] ==
                    IF k = 0 THEN 0 ELSE F[k - 1] + countFiles(node.children[k])
              IN F[Len(node.children)]
         ELSE 0

countFiles(node) ==
    IF node.type = "file" THEN 1
    ELSE IF node.type = "directory"
         THEN LET F[k \in 0..Len(node.children)] ==
                    IF k = 0 THEN 0 ELSE F[k - 1] + countFiles(node.children[k])
              IN F[Len(node.children)]
         ELSE 0

countLines(node) ==
    IF node.type = "file" THEN node.lines
    ELSE IF node.type = "directory"
         THEN LET F[k \in 0..Len(node.children)] ==
                    IF k = 0 THEN 0 ELSE F[k - 1] + countLines(node.children[k])
              IN F[Len(node.children)]
         ELSE 0

countDirectories(node) ==
    IF node.type = "directory"
    THEN 1 + (LET F[k \in 0..Len(node.children)] ==
                    IF k = 0 THEN 0
                    ELSE F[k - 1] + countDirectories(node.children[k])
              IN F[Len(node.children)])
    ELSE 0

----------------------------------------------------------------------------
(* The tree builder *)

\* content.split("\n").length
SplitLength(content) ==
    Cardinality({i \in 1..Len(content) : content[i] = "\n"}) + 1

\* path.extname(name): from the last "." on, unless that is the first character
Extname(name) ==
    LET dots == {i \in 2..Len(name) : name[i] = "."}
    IN IF dots = {} THEN EmptyString
       ELSE LET last == CHOOSE i \in dots : \A j \in dots : j <= i
            IN SubSeq(name, last, Len(name))

BinaryPlaceholder(name) == <<"[", "unreadable", ":">> \o name \o <<"]">>

\* a size test that already rejects a file of exactly the cap
tooLarge_AtCap(size) == size >= MAX_FILE_SIZE

\* `size > MAX_FILE_SIZE`, `contentSize > MAX_FILE_SIZE`
tooLarge(size) == size > MAX_FILE_SIZE

fileNodeOf(stats, name, relativePath, includeContent) ==
    LET base == [type |-> "file", name |-> name, path |-> relativePath,
                 size |-> stats.size, extension |-> Extname(name)]
    IN IF tooLarge(stats.size)
       THEN base @@ [lines |-> 0, skipped |-> TRUE, reason |-> "File too large (>1MB)"]
       ELSE IF ~stats.readable
       THEN IF includeContent
            THEN base @@ [lines |-> 0, error |-> "Cannot read file",
                          content |-> BinaryPlaceholder(name)]
            ELSE base @@ [lines |-> 0, error |-> "Cannot read file"]
       ELSE IF tooLarge(stats.byteLength)
       THEN base @@ [lines |-> 0, skipped |-> TRUE,
                     reason |-> "File content too large (>1MB)"]
       ELSE IF includeContent
            THEN base @@ [lines |-> SplitLength(stats.text), content |-> stats.text]
            ELSE base @@ [lines |-> SplitLength(stats.text)]

\* the comparator of children.sort(...)
compareChildren(a, b) ==
    IF a.type # b.type
    THEN (IF a.type = "directory" THEN -1 ELSE 1)
    ELSE localeCompare(a.name, b.name)

\* insert x into the sorted sequence s, after the elements that compare <= x
RECURSIVE InsertSorted(_, _)
InsertSorted(s, x) ==
    IF Len(s) = 0 THEN <<x>>
    ELSE IF compareChildren(x, Head(s)) < 0 THEN <<x>> \o s
    ELSE <<Head(s)>> \o InsertSorted(Tail(s), x)

RECURSIVE sortChildren(_)
sortChildren(children) ==
    IF Len(children) = 0 THEN << >>
    ELSE InsertSorted(sortChildren(SubSeq(children, 1, Len(children) - 1)),
                      children[Len(children)])

\* a builder that applies the exclusion test to files only
excludedResult_FilesOnly(stats, excluded) == excluded /\ stats.kind = "file"

\* `if (shouldExclude) return null`
excludedResult(stats, excluded) == excluded

\* what a call returns: a thrown exception, or a value (a node or null)
Thrown == [threw |-> TRUE, value |-> Null]
Returned(v) == [threw |-> FALSE, value |-> v]

directoryNodeOf(name, relativePath, children) ==
    [type |-> "directory", name |-> name, path |-> relativePath,
     children |-> children,
     fileCount |-> countFiles(ArrayValue(children)),
     lineCount |-> countLines(ArrayValue(children))]

RECURSIVE generateAST(_, _, _, _)
RECURSIVE scanEntries(_, _, _, _, _, _)

\* the `for (const entry of entries)` loop from entry k on; an exception of
\* the recursive call leaves the loop with the children pushed so far
scanEntries(entries, k, children, dirPath, excludeFiles, ctx) ==
    IF k > Len(entries) THEN [threw |-> FALSE, children |-> children]
    ELSE LET entryPath == PathJoin(dirPath, entries[k])
             childAST == generateAST(entryPath, excludeFiles, ctx.basePath,
                                     ctx.includeContent)
         IN IF childAST.threw THEN [threw |-> TRUE, children |-> children]
            ELSE scanEntries(entries, k + 1,
                             IF childAST.value # Null
                             THEN Append(children, childAST.value)
                             ELSE children,
                             dirPath, excludeFiles, ctx)

generateAST(dirPath, excludeFiles, basePathArg, includeContent) ==
    LET basePath == IF basePathArg = NoPath THEN dirPath ELSE basePathArg
    IN IF StatThrows(dirPath) THEN Thrown
       ELSE LET stats == disk[dirPath]
                relativePath == PathRelative(basePath, dirPath)
                name == PathBasename(dirPath)
            IN IF matcherThrows(relativePath, name, excludeFiles) THEN Thrown
               ELSE IF excludedResult(stats, shouldExclude(relativePath, name, excludeFiles))
               THEN Returned(Null)
               ELSE IF stats.kind = "file"
               THEN Returned(fileNodeOf(stats, name, relativePath, includeContent))
               ELSE IF stats.kind = "dir"
               THEN LET scan == scanEntries(stats.listing, 1, << >>, dirPath,
                                            excludeFiles,
                                            [basePath |-> basePath,
                                             includeContent |-> includeContent])
                        children == IF scan.threw THEN scan.children
                                    ELSE sortChildren(scan.children)
                    IN Returned(directoryNodeOf(name, relativePath, children))
               ELSE Returned(Null)

----------------------------------------------------------------------------
(* The generate-ast request handler *)

defaultExcludes ==
    << <<"n","o","d","e","_","m","o","d","u","l","e","s">>,
       <<".","n","e","x","t">>,
       <<".","g","i","t">>,
       <<".","v","s","c","o","d","e">>,
       <<".","i","d","e","a">>,
       <<"d","i","s","t">>,
       <<"b","u","i","l","d">>,
       <<"c","o","v","e","r","a","g","e">>,
       <<".","e","n","v">>,
       <<".","e","n","v",".","l","o","c","a","l">>,
       <<".","e","n","v",".","*",".","l","o","c","a","l">>,
       <<"*",".","l","o","g">>,
       <<".","D","S","_","S","t","o","r","e">>,
       <<"T","h","u","m","b","s",".","d","b">>,
       <<"p","a","c","k","a","g","e","-","l","o","c","k",".","j","s","o","n">>,
       <<"y","a","r","n",".","l","o","c","k">>,
       <<".","y","a","r","n">>,
       <<".","p","n","p">>,
       <<".","p","n","p",".","j","s">> >>

NoResponse == [status |-> 0]
NoRequest == [method |-> "none", excludeFiles |-> << >>, includeContent |-> FALSE]

\* exclusion lists a caller sends
P_b == <<"b">>
P_a_b == <<"a", "/", "b">>
P_star_b == <<"*", "b">>
ExcludeLists == { << >>, <<P_b>>, <<P_a_b>>, <<P_star_b>> }

\* build requests: POST with a body, or another method (the body is not read)
BuildRequests ==
    [method : {"POST"}, excludeFiles : ExcludeLists, includeContent : BOOLEAN]
    \cup [method : {"GET"}, excludeFiles : {<< >>}, includeContent : {FALSE}]

allExcludesOf(excludeFiles) == defaultExcludes \o excludeFiles

buildResponseOf(excludeFiles, includeContent) ==
    LET allExcludes == allExcludesOf(excludeFiles)
        result == generateAST(ProjectRoot, allExcludes, NoPath, includeContent)
    IN IF result.threw
       THEN [status |-> 500, error |-> "Failed to generate AST", message |-> "thrown"]
       ELSE IF result.value = Null
       THEN [status |-> 500, error |-> "Failed to generate AST"]
       ELSE LET ast == IF result.value.path = EmptyString
                       THEN [result.value EXCEPT !.name =
                                IF PathBasename(ProjectRoot) # EmptyString
                                THEN PathBasename(ProjectRoot) ELSE <<"root">>]
                       ELSE result.value
            IN [status |-> 200, success |-> TRUE, ast |-> ast,
                summary |-> [totalFiles |-> countFiles(ast),
                             totalLines |-> countLines(ast),
                             totalDirectories |-> countDirectories(ast)],
                excluded |-> allExcludes]

\* a request to /api/builder/generate-ast
BuildRequest(req) ==
    /\ buildResp = NoResponse
    /\ buildReq' = req
    /\ buildResp' = IF req.method # "POST"
                    THEN [status |-> 405, error |-> "Method not allowed"]
                    ELSE buildResponseOf(req.excludeFiles, req.includeContent)
    /\ UNCHANGED disk
    /\ UNCHANGED <<deployVars, restVars>>

\* the project directory changes before the request: an entry appears
CreateEntry(parent, name, entry) ==
    /\ buildResp = NoResponse
    /\ zip = NoZip
    /\ firstResp = NoResponse
    /\ parent \in DOMAIN disk
    /\ disk[parent].kind = "dir"
    /\ PathJoin(parent, name) \notin DOMAIN disk
    /\ Depth(parent) < MaxDepth
    /\ Cardinality(DOMAIN disk) - 1 < MaxEntries
    /\ disk' = [p \in DOMAIN disk \cup {PathJoin(parent, name)} |->
                  IF p = parent
                  THEN [disk[parent] EXCEPT !.listing = Append(@, name)]
                  ELSE IF p = PathJoin(parent, name) THEN entry
                  ELSE disk[p]]
    /\ UNCHANGED <<buildResp, buildReq>>
    /\ UNCHANGED <<deployVars, restVars>>

NextBuild ==
    \/ \E parent \in DOMAIN disk, name \in Names, entry \in NewEntries :
          CreateEntry(parent, name, entry)
    \/ \E req \in BuildRequests : BuildRequest(req)

\* a project directory that holds files of every kind, and no directory
NextFiles ==
    \/ \E name \in Names, entry \in AllFileEntries :
          CreateEntry(ProjectRoot, name, entry)
    \/ \E req \in BuildRequests : BuildRequest(req)

----------------------------------------------------------------------------
(* The download-zip request handler *)

zipDefaultExcludes ==
    << <<"n","o","d","e","_","m","o","d","u","l","e","s">>,
       <<".","n","e","x","t">>,
       <<".","g","i","t">>,
       <<".","v","s","c","o","d","e">>,
       <<".","i","d","e","a">>,
       <<"d","i","s","t">>,
       <<"b","u","i","l","d">>,
       <<"c","o","v","e","r","a","g","e">>,
       <<".","e","n","v">>,
       <<".","e","n","v",".","l","o","c","a","l">>,
       <<".","e","n","v",".","*",".","l","o","c","a","l">>,
       <<"*",".","l","o","g">>,
       <<".","D","S","_","S","t","o","r","e">>,
       <<"T","h","u","m","b","s",".","d","b">>,
       <<"p","a","c","k","a","g","e","-","l","o","c","k",".","j","s","o","n">>,
       <<"y","a","r","n",".","l","o","c","k">>,
       <<".","y","a","r","n">>,
       <<".","p","n","p">>,
       <<".","p","n","p",".","j","s">> >>

\* an archive that takes the caller's list alone
zipAllExcludesOf_CallerOnly(excludeFiles) == excludeFiles

zipAllExcludesOf(excludeFiles) == zipDefaultExcludes \o excludeFiles

RECURSIVE addToZip(_, _, _, _)
RECURSIVE zipEntries(_, _, _, _, _, _)

\* the `for (const entry of entries)` loop of addToZip from entry k on; the
\* archive is the sequence of archive.file(entryPath, { name }) calls
zipEntries(entries, k, archive, dirPath, basePath, excludeFiles) ==
    IF k > Len(entries) THEN archive
    ELSE LET entryPath == PathJoin(dirPath, entries[k])
             relativePath == PathRelative(basePath, entryPath)
         IN IF \/ StatThrows(entryPath)
               \/ zipMatcherThrows(entryPath, relativePath, excludeFiles)
            THEN archive
            ELSE IF zipShouldExclude(entryPath, relativePath, excludeFiles)
            THEN zipEntries(entries, k + 1, archive, dirPath, basePath,
                            excludeFiles)
            ELSE IF disk[entryPath].kind = "dir"
            THEN zipEntries(entries, k + 1,
                            addToZip(archive, entryPath, basePath, excludeFiles),
                            dirPath, basePath, excludeFiles)
            ELSE IF disk[entryPath].kind = "file"
            THEN zipEntries(entries, k + 1,
                            Append(archive, [path |-> entryPath,
                                             name |-> relativePath]),
                            dirPath, basePath, excludeFiles)
            ELSE zipEntries(entries, k + 1, archive, dirPath, basePath,
                            excludeFiles)

addToZip(archive, dirPath, basePath, excludeFiles) ==
    IF dirPath \notin DOMAIN disk \/ disk[dirPath].kind # "dir" THEN archive
    ELSE zipEntries(disk[dirPath].listing, 1, archive, dirPath, basePath,
                    excludeFiles)

\* the response and the archive before anything was written or queued
FreshZip ==
    [pc |-> "running", status |-> 0, body |-> "none", headersSent |-> FALSE,
     ended |-> FALSE, allExcludes |-> << >>, entries |-> << >>, emitted |-> 0,
     archiveEnded |-> FALSE, flushed |-> 0, dropped |-> 0, jsonBodies |-> 0,
     errors |-> 0, errorBeforeFlush |-> FALSE, errorAfterFlush |-> FALSE]

\* res.status(status).json(...)
jsonAnswer(z, status) ==
    [z EXCEPT !.status = status, !.body = "json", !.headersSent = TRUE,
              !.ended = TRUE, !.jsonBodies = @ + 1]

\* an 'error' listener that answers whatever was sent before
errorHandlerResponds_Always(headersSent) == TRUE

\* `if (!res.headersSent)` of the 'error' listener
errorHandlerResponds(headersSent) == ~headersSent

ZipRequests ==
    [method : {"POST"}, bodyNull : {FALSE}, excludeFiles : ExcludeLists]
    \cup [method : {"GET"}, bodyNull : {FALSE}, excludeFiles : {<< >>}]
    \cup [method : {"POST"}, bodyNull : {TRUE}, excludeFiles : {<< >>}]

\* a request to /api/builder/download-zip, up to `await archive.finalize()`
ZipRequest(req) ==
    /\ zip.pc = "idle"
    /\ zipReq' = [method |-> req.method, excludeFiles |-> req.excludeFiles]
    /\ zip' = IF req.method # "POST"
              THEN jsonAnswer([FreshZip EXCEPT !.pc = "done"], 405)
              ELSE IF req.bodyNull
              THEN jsonAnswer([FreshZip EXCEPT !.pc = "done"], 500)
              ELSE LET allExcludes == zipAllExcludesOf(req.excludeFiles)
                   IN [FreshZip EXCEPT
                         !.pc = "finalizing",
                         !.allExcludes = allExcludes,
                         !.entries = addToZip(<< >>, ProjectRoot, ProjectRoot,
                                              allExcludes)]
    /\ UNCHANGED <<buildVars, deployVars, firstResp, callArgs, callResult, ui, clock, jobs>>

streaming == zip.pc \in {"finalizing", "caught"} /\ ~zip.archiveEnded

\* the archive emits a chunk (one per entry, then the central directory) and
\* the pipe writes it to the response; a write after end sends nothing
ArchiveData ==
    /\ streaming
    /\ zip.emitted < Len(zip.entries) + 1
    /\ zip' = IF zip.ended
              THEN [zip EXCEPT !.emitted = @ + 1, !.dropped = @ + 1]
              ELSE [zip EXCEPT !.emitted = @ + 1, !.flushed = @ + 1,
                               !.headersSent = TRUE, !.status = 200,
                               !.body = "zip"]
    /\ UNCHANGED <<zipReq, buildVars, deployVars, firstResp, callArgs, callResult, ui, clock, jobs>>

\* the archive emits 'error' and the listener of the handler runs
ArchiveError ==
    /\ streaming
    /\ zip.errors < MaxErrors
    /\ zip' = LET z == [zip EXCEPT
                          !.errors = @ + 1,
                          !.errorBeforeFlush = @ \/ zip.flushed = 0,
                          !.errorAfterFlush = @ \/ zip.flushed > 0]
              IN IF errorHandlerResponds(zip.headersSent)
                 THEN jsonAnswer(z, 500)
                 ELSE z
    /\ UNCHANGED <<zipReq, buildVars, deployVars, firstResp, callArgs, callResult, ui, clock, jobs>>

\* the archive ends: the pipe ends the response, and finalize() resolves
\* unless an error was emitted before
ArchiveEnd ==
    /\ streaming
    /\ zip.emitted = Len(zip.entries) + 1
    /\ zip' = [zip EXCEPT !.archiveEnded = TRUE, !.ended = TRUE,
                          !.pc = IF zip.errors = 0 THEN "done" ELSE @]
    /\ UNCHANGED <<zipReq, buildVars, deployVars, firstResp, callArgs, callResult, ui, clock, jobs>>

\* finalize() rejects and the catch block of the handler runs
FinalizeRejected ==
    /\ zip.pc = "finalizing"
    /\ zip.errors > 0
    /\ zip' = LET z == [zip EXCEPT !.pc = "caught"]
              IN IF ~zip.headersSent THEN jsonAnswer(z, 500) ELSE z
    /\ UNCHANGED <<zipReq, buildVars, deployVars, firstResp, callArgs, callResult, ui, clock, jobs>>

\* names of the projects that are built and archived
N_git == <<".","g","i","t">>
ArchiveNames == {N_a, N_b, N_git}
ArchiveEntries == {TextFile, EmptyDir, BrokenEntry}

\* a pattern with a wildcard that is no regular expression
P_star_paren == <<"*", "(">>

\* exclusion lists sent to both handlers; one names the project directory
\* and one holds the invalid pattern
ArchiveExcludeLists ==
    { << >>, <<P_b>>, <<P_star_b>>, <<N_app>>, <<P_star_paren>> }

\* the directories entries are created in: the project root and its children
ArchiveParents == {p \in DOMAIN disk : Depth(p) <= 1}

\* the same project built and archived
NextArchive ==
    \/ \E parent \in ArchiveParents, name \in ArchiveNames,
          entry \in ArchiveEntries :
          CreateEntry(parent, name, entry)
    \/ \E excludeFiles \in ArchiveExcludeLists :
          BuildRequest([method |-> "POST", excludeFiles |-> excludeFiles,
                        includeContent |-> FALSE])
    \/ \E excludeFiles \in ArchiveExcludeLists :
          ZipRequest([method |-> "POST", bodyNull |-> FALSE,
                      excludeFiles |-> excludeFiles])

\* one archive request and the events of its stream
NextZipStream ==
    \/ \E name \in Names : CreateEntry(ProjectRoot, name, TextFile)
    \/ \E req \in ZipRequests : ZipRequest(req)
    \/ ArchiveData
    \/ ArchiveError
    \/ ArchiveEnd
    \/ FinalizeRejected

----------------------------------------------------------------------------
(* The tree replayer (reconstructFilesFromAST of lib/github) *)

\* the nodes of a tree
RECURSIVE NodesOf(_)
NodesOf(node) ==
    {node} \cup
    (IF node.type = "directory"
     THEN UNION {NodesOf(node.children[k]) : k \in 1..Len(node.children)}
     ELSE {})

\* the segments of a relative path
RECURSIVE SplitPath(_, _)
SplitPath(relativePath, segment) ==
    IF Len(relativePath) = 0
    THEN (IF Len(segment) = 0 THEN << >> ELSE <<segment>>)
    ELSE IF Head(relativePath) = "/"
    THEN <<segment>> \o SplitPath(Tail(relativePath), EmptyString)
    ELSE SplitPath(Tail(relativePath), Append(segment, Head(relativePath)))

\* what the replayer leaves on disk for one node: a directory with the
\* children's names, or a file holding `content`, empty if there is none
replayedEntry(node) ==
    IF node.type = "directory"
    THEN [kind |-> "dir",
          listing |-> [k \in 1..Len(node.children) |-> node.children[k].name]]
    ELSE LET content == IF "content" \in DOMAIN node THEN node.content
                        ELSE EmptyString
         IN [kind |-> "file", size |-> Len(content), readable |-> TRUE,
             text |-> content, byteLength |-> Len(content)]

\* the destination directory after the replay of a tree into it
reconstructFilesFromAST(ast, destinationDir) ==
    LET pathOf(n) == destinationDir \o SplitPath(n.path, EmptyString)
        nodes == NodesOf(ast)
    IN [q \in {pathOf(n) : n \in nodes} |->
          replayedEntry(CHOOSE n \in nodes : pathOf(n) = q)]

\* the tree of the answer is replayed into an empty directory, which takes
\* the place of the project directory for the build that follows
ReplayTree ==
    /\ buildResp.status = 200
    /\ buildReq.includeContent
    /\ firstResp = NoResponse
    /\ firstResp' = buildResp
    /\ disk' = reconstructFilesFromAST(buildResp.ast, ProjectRoot)
    /\ buildResp' = NoResponse
    /\ UNCHANGED <<buildReq, deployVars, zipReq, zip, callArgs, callResult, ui, clock, jobs>>

RoundTripEntries == {TextFile, HugeFile, LockedFile, EmptyDir}

NextRoundTrip ==
    \/ \E parent \in DOMAIN disk, name \in Names, entry \in RoundTripEntries :
          CreateEntry(parent, name, entry)
    \/ \E excludeFiles \in {<< >>, <<P_a_b>>} :
          BuildRequest([method |-> "POST", excludeFiles |-> excludeFiles,
                        includeContent |-> TRUE])
    \/ ReplayTree

----------------------------------------------------------------------------
(* Properties of the tree builder *)

built == buildResp.status = 200

DirectoryNodes(tree) == {n \in NodesOf(tree) : n.type = "directory"}
FileNodesBelow(d) == {n \in NodesOf(d) : n.type = "file"}

RECURSIVE SumOfLines(_)
SumOfLines(nodes) ==
    IF nodes = {} THEN 0
    ELSE LET n == CHOOSE x \in nodes : TRUE
         IN n.lines + SumOfLines(nodes \ {n})

\* C1: in every returned tree each directory node stores as fileCount the
\* number of its descendant file nodes and as lineCount the sum of their
\* lines, and the summary totals equal the values stored on the root.
C1_StoredAggregates ==
    built =>
        /\ \A d \in DirectoryNodes(buildResp.ast) :
              /\ d.fileCount = Cardinality(FileNodesBelow(d))
              /\ d.lineCount = SumOfLines(FileNodesBelow(d))
        /\ buildResp.summary.totalFiles = buildResp.ast.fileCount
        /\ buildResp.summary.totalLines = buildResp.ast.lineCount

\* the directories of the disk that the merged exclusion list matches
ExcludedDirs(excludes) ==
    {d \in DOMAIN disk :
        /\ disk[d].kind = "dir"
        /\ shouldExclude(PathRelative(ProjectRoot, d), PathBasename(d), excludes)}

\* the node's path names directory d or something below it
NodeAtOrBelow(n, d) ==
    LET rel == PathRelative(ProjectRoot, d)
    IN rel = EmptyString \/ n.path = rel \/ StartsWith(n.path, rel \o Sep)

\* C9: a directory that matches an exclusion pattern is absent from the
\* built tree together with everything below it, whatever the names below.
C9_ExclusionTransitive ==
    built =>
        \A d \in ExcludedDirs(allExcludesOf(buildReq.excludeFiles)) :
            \A n \in NodesOf(buildResp.ast) : ~NodeAtOrBelow(n, d)

IsBelow(p, d) == Len(p) > Len(d) /\ SubSeq(p, 1, Len(d)) = d

\* a tree was built while an excluded directory held an entry whose own
\* path and name match no pattern
C9_Witness ==
    /\ built
    /\ \E d \in ExcludedDirs(allExcludesOf(buildReq.excludeFiles)) :
          \E p \in DOMAIN disk :
              /\ IsBelow(p, d)
              /\ disk[p].kind \in {"file", "dir"}
              /\ ~shouldExclude(PathRelative(ProjectRoot, p), PathBasename(p),
                                allExcludesOf(buildReq.excludeFiles))
    /\ Len(buildResp.ast.children) > 0

\* C10: in every returned tree the children of each directory node are
\* sorted, directories before files and each group alphabetically by name.
C10_ChildrenSorted ==
    built =>
        \A d \in DirectoryNodes(buildResp.ast) :
            \A i, j \in 1..Len(d.children) :
                i < j =>
                    LET a == d.children[i]
                        b == d.children[j]
                    IN /\ a.type = "file" => b.type = "file"
                       /\ a.type = b.type => localeCompare(a.name, b.name) <= 0

\* the disk entry a node of the tree was built from
EntryOfNode(n) ==
    disk[CHOOSE p \in DOMAIN disk : PathRelative(ProjectRoot, p) = n.path]

FileNodes(tree) == {n \in NodesOf(tree) : n.type = "file"}

SkippedForSize(n) ==
    /\ "skipped" \in DOMAIN n
    /\ n.skipped = TRUE
    /\ n.lines = 0
    /\ "content" \notin DOMAIN n

\* C11 as stated: a file above the 1 MiB cap gives a node with skipped =
\* true, lines = 0 and no content, with or without includeContent; a file of
\* the cap size or less is not skipped.
C11_SkippedIffAboveCap ==
    built =>
        \A n \in FileNodes(buildResp.ast) :
            /\ EntryOfNode(n).size > MAX_FILE_SIZE => SkippedForSize(n)
            /\ EntryOfNode(n).size <= MAX_FILE_SIZE => "skipped" \notin DOMAIN n

\* C11 amended: a file above the cap gives a node with skipped = true,
\* lines = 0 and no content, with or without includeContent; a file of the
\* cap size or less is skipped in the same way exactly when it can be read
\* and the byte length of its decoded content exceeds the cap.
C11_SkippedBySizeOrContentSize ==
    built =>
        \A n \in FileNodes(buildResp.ast) :
            LET e == EntryOfNode(n)
            IN /\ e.size > MAX_FILE_SIZE => SkippedForSize(n)
               /\ (e.size <= MAX_FILE_SIZE /\ e.readable
                        /\ e.byteLength > MAX_FILE_SIZE) => SkippedForSize(n)
               /\ (e.size <= MAX_FILE_SIZE
                        /\ ~(e.readable /\ e.byteLength > MAX_FILE_SIZE)) =>
                     "skipped" \notin DOMAIN n

\* a tree built with includeContent that holds a file above the cap, a file
\* exactly at the cap and a file at the cap whose decoded content is longer
C11_Witness ==
    /\ built
    /\ buildReq.includeContent
    /\ \E n1, n2, n3 \in FileNodes(buildResp.ast) :
          /\ EntryOfNode(n1) = HugeFile
          /\ EntryOfNode(n2) = CapFile /\ "content" \in DOMAIN n2
          /\ EntryOfNode(n3) = BinaryFile

matched == callResult.fn = "shouldExclude"

EndsWith(s, suffix) ==
    /\ Len(suffix) <= Len(s)
    /\ SubSeq(s, Len(s) - Len(suffix) + 1, Len(s)) = suffix

\* C12: the wildcard pattern `*.log` excludes every path whose basename
\* ends with the literal `.log`, and excludes no path that does not end with
\* the literal `.log` (such as `applog.txt`).
C12_StarLogIsLiteralSuffix ==
    (matched /\ callArgs.excludeFiles = <<P_star_log>>) =>
        (callResult.builder <=>
            EndsWith(PathBasename(callArgs.filePath), N_dot_log))

\* a pattern read as a glob: `*` is any sequence, every other character
\* stands for itself
RECURSIVE GlobMatchFrom(_, _, _, _)
GlobMatchFrom(p, i, s, j) ==
    IF i > Len(p) THEN j > Len(s)
    ELSE IF p[i] = "*"
         THEN \/ GlobMatchFrom(p, i + 1, s, j)
              \/ j <= Len(s) /\ GlobMatchFrom(p, i, s, j + 1)
         ELSE /\ j <= Len(s)
              /\ p[i] = s[j]
              /\ GlobMatchFrom(p, i + 1, s, j + 1)

StatedMatch(relativePath, name, excludeFiles) ==
    \E k \in 1..Len(excludeFiles) :
        LET p == excludeFiles[k]
        IN \/ relativePath = p
           \/ name = p
           \/ StartsWith(relativePath, p \o Sep)
           \/ /\ Includes(p, "*")
              /\ \/ GlobMatchFrom(p, 1, relativePath, 1)
                 \/ GlobMatchFrom(p, 1, name, 1)

\* C20: the matcher answers true exactly when some pattern equals the path
\* or the basename, or the path starts with the pattern and a separator, or
\* the pattern holds `*` and the path or the basename matches it in full
\* with `*` standing for any sequence; the answer does not depend on the
\* order of the patterns, and both copies of the matcher agree.
C20_MatcherAsStated ==
    matched =>
        /\ callResult.builder =
                StatedMatch(callArgs.relativePath,
                            PathBasename(callArgs.filePath),
                            callArgs.excludeFiles)
        /\ callResult.zip = callResult.builder

zipped == zip.pc = "finalizing"

DiskPathOf(relativePath) ==
    CHOOSE p \in DOMAIN disk : PathRelative(ProjectRoot, p) = relativePath

\* a baseline pattern matches the path or a directory above it
UnderBaseline(p) ==
    \E k \in (Len(ProjectRoot) + 1)..Len(p) :
        LET d == SubSeq(p, 1, k)
        IN shouldExclude(PathRelative(ProjectRoot, d), PathBasename(d),
                         defaultExcludes)

IsPrefixOf(a, b) == Len(a) <= Len(b) /\ SubSeq(b, 1, Len(a)) = a
IsSuffixOf(a, b) == EndsWith(b, a)

\* C13: the baseline patterns are part of the effective exclusion list of
\* the tree build and of the archive whatever the caller sends; the caller's
\* patterns are added to them and remove none of them.
C13_BaselineAlwaysApplied ==
    /\ built =>
          /\ IsPrefixOf(defaultExcludes, buildResp.excluded)
          /\ IsSuffixOf(buildReq.excludeFiles, buildResp.excluded)
          /\ \A n \in NodesOf(buildResp.ast) : ~UnderBaseline(DiskPathOf(n.path))
    /\ zipped =>
          /\ IsPrefixOf(defaultExcludes, zip.allExcludes)
          /\ IsSuffixOf(zipReq.excludeFiles, zip.allExcludes)
          /\ \A i \in 1..Len(zip.entries) : ~UnderBaseline(zip.entries[i].path)

\* a project with a file below `.git` next to a file that is kept, built and
\* archived with a list of the caller's own
C13_Witness ==
    /\ built
    /\ zipped
    /\ buildReq.excludeFiles # << >>
    /\ zipReq.excludeFiles # << >>
    /\ \E p \in DOMAIN disk : disk[p].kind = "file" /\ UnderBaseline(p)
    /\ FileNodes(buildResp.ast) # {}
    /\ Len(zip.entries) > 0

ArchivePaths == {zip.entries[i].name : i \in 1..Len(zip.entries)}
TreeFilePaths ==
    IF built THEN {n.path : n \in FileNodes(buildResp.ast)} ELSE {}

\* C14: for the same project and the same exclusion list the archive holds
\* an entry for exactly the paths that are file nodes of the tree, and no
\* directory is an archive entry.
C14_SameDecisions ==
    (zipped /\ buildResp # NoResponse
            /\ zipReq.excludeFiles = buildReq.excludeFiles) =>
        /\ ArchivePaths = TreeFilePaths
        /\ \A i \in 1..Len(zip.entries) :
              disk[zip.entries[i].path].kind = "file"

\* C15: an archive error before any byte was written is answered with one
\* JSON error of a non-2xx status and no archive byte follows it; once bytes
\* were written no JSON body is written; either way at most one response.
C15_OneResponse ==
    zip.pc # "idle" =>
        /\ zip.jsonBodies <= 1
        /\ ~(zip.jsonBodies > 0 /\ zip.flushed > 0)
        /\ zip.errorBeforeFlush =>
              /\ zip.body = "json"
              /\ zip.status \notin 200..299
              /\ zip.flushed = 0
        /\ zip.flushed > 0 => zip.body = "zip" /\ zip.status = 200

\* the archive failed before the first byte, was answered with the JSON
\* error, went on emitting data that was not sent, and finalize() rejected
C15_Witness ==
    /\ zip.pc = "caught"
    /\ zip.errorBeforeFlush
    /\ zip.dropped > 0
    /\ zip.jsonBodies = 1

rebuilt ==
    /\ firstResp # NoResponse
    /\ built
    /\ buildReq.includeContent
    /\ buildResp.excluded = firstResp.excluded

ContentOf(n) ==
    IF "content" \in DOMAIN n THEN [present |-> TRUE, text |-> n.content]
    ELSE [present |-> FALSE, text |-> EmptyString]

SameFile(n, m) ==
    /\ m.path = n.path
    /\ m.name = n.name
    /\ ContentOf(m) = ContentOf(n)
    /\ m.size = n.size

\* C16: a tree built with includeContent, replayed into an empty directory
\* and built again from it with the same exclusion list has, for every file
\* node of the first tree (size-skipped and unreadable ones included), a
\* file node of the same path, name, content and size.
C16_RoundTrip ==
    rebuilt =>
        \A n \in FileNodes(firstResp.ast) :
            \E m \in FileNodes(buildResp.ast) : SameFile(n, m)

\* C17: the summary of a built tree gives as totalFiles the number of its
\* file nodes (skipped and unreadable ones included), as totalLines the sum
\* of their lines, and as totalDirectories the number of its directory
\* nodes with the root as one; an empty root gives 0, 0 and 1.
C17_SummaryCounts ==
    built =>
        /\ buildResp.summary.totalFiles = Cardinality(FileNodes(buildResp.ast))
        /\ buildResp.summary.totalLines = SumOfLines(FileNodes(buildResp.ast))
        /\ buildResp.summary.totalDirectories =
                Cardinality(DirectoryNodes(buildResp.ast))
        /\ buildResp.ast.children = << >> =>
                buildResp.summary = [totalFiles |-> 0, totalLines |-> 0,
                                     totalDirectories |-> 1]

\* a built tree with a directory below the root, a file skipped for its
\* size and a file with lines
C17_Witness ==
    /\ built
    /\ buildResp.summary.totalDirectories >= 2
    /\ buildResp.summary.totalLines > 0
    /\ \E n \in FileNodes(buildResp.ast) : "skipped" \in DOMAIN n

\* C19: in every built tree the path of the root is the empty string and
\* the path of every other node is its parent's path joined with its name
\* by the separator (the name alone below the root); no path is absolute.
C19_PathsRelative ==
    built =>
        /\ buildResp.ast.path = EmptyString
        /\ \A d \in DirectoryNodes(buildResp.ast) :
              \A k \in 1..Len(d.children) :
                  d.children[k].path =
                      IF d.path = EmptyString THEN d.children[k].name
                      ELSE d.path \o Sep \o d.children[k].name
        /\ \A n \in NodesOf(buildResp.ast) :
              ~StartsWith(n.path, Sep)

\* a built tree with a node two directories below the root
C19_Witness ==
    /\ built
    /\ \E d \in DirectoryNodes(buildResp.ast) :
          /\ d.path # EmptyString
          /\ \E k \in 1..Len(d.children) : d.children[k].type = "directory"
                /\ Len(d.children[k].children) > 0

\* C21: for an accessible root directory the build request returns a tree,
\* whatever the exclusion list and whatever lies below the root.
C21_TreeForAccessibleRoot ==
    (buildResp # NoResponse /\ buildReq.method = "POST"
        /\ ~StatThrows(ProjectRoot)) => built

\* the entries a directory of the disk lists that no pattern excludes
KeptEntries(dirPath, excludes) ==
    {k \in 1..Len(disk[dirPath].listing) :
        LET entryPath == PathJoin(dirPath, disk[dirPath].listing[k])
        IN ~shouldExclude(PathRelative(ProjectRoot, entryPath),
                          PathBasename(entryPath), excludes)}

\* C22: an entry that cannot be read is recorded as a node of its own and
\* the walk goes on: every entry of a walked directory that no pattern
\* excludes has a node among the children of the directory's node.
C22_WalkContinues ==
    built =>
        \A d \in DirectoryNodes(buildResp.ast) :
            LET dirPath == DiskPathOf(d.path)
            IN \A k \in KeptEntries(dirPath, buildResp.excluded) :
                  \E c \in 1..Len(d.children) :
                      d.children[c].name = disk[dirPath].listing[k]

\* no pattern of the archive request matches the path or a directory above
ZipKept(p, excludes) ==
    \A k \in (Len(ProjectRoot) + 1)..Len(p) :
        LET d == SubSeq(p, 1, k)
        IN ~zipShouldExclude(d, PathRelative(ProjectRoot, d), excludes)

\* C23: a failure on one entry skips that entry alone: every regular file
\* that no pattern excludes, the entries listed after a failing one
\* included, is written to the archive.
C23_ArchiveContinues ==
    zipped =>
        \A p \in DOMAIN disk :
            (disk[p].kind = "file" /\ ZipKept(p, zip.allExcludes)) =>
                \E i \in 1..Len(zip.entries) : zip.entries[i].path = p

NoBrokenEntry == \A p \in DOMAIN disk : disk[p].kind # "broken"

\* the patterns the matcher can evaluate
ValidPatterns(excludes) ==
    SelectSeq(excludes,
              LAMBDA e : ~(Includes(e, "*") /\ InvalidRegex(ReplaceStar(e))))

\* C29: whatever patterns the caller sends, one that is no regular
\* expression included, an archive that is answered without an error holds
\* every regular file that no pattern excludes (every entry can be read).
C29_CompleteOrError ==
    (zipped /\ NoBrokenEntry) =>
        \A p \in DOMAIN disk :
            (disk[p].kind = "file" /\ ZipKept(p, ValidPatterns(zip.allExcludes)))
                => \E i \in 1..Len(zip.entries) : zip.entries[i].path = p

----------------------------------------------------------------------------
(* The deploy request handler *)

maxAttempts == 30

\* requests: the method, which body fields are present (truthy; bodyNull: the
\* body is null or undefined), and whether the server has VERCEL_API_TOKEN;
\* username and repoName live inside config.github
DeployRequests ==
    {r \in [method : {"POST", "GET"}, bodyNull : BOOLEAN, ast : BOOLEAN,
            config : BOOLEAN, githubToken : BOOLEAN, username : BOOLEAN,
            repoName : BOOLEAN, vercelToken : BOOLEAN] :
        /\ r.bodyNull => (~r.ast /\ ~r.config /\ ~r.githubToken)
        /\ ~r.config => (~r.username /\ ~r.repoName)}

NoDeployRequest ==
    [method |-> "none", bodyNull |-> FALSE, ast |-> FALSE, config |-> FALSE,
     githubToken |-> FALSE, username |-> FALSE, repoName |-> FALSE,
     vercelToken |-> FALSE]

NoRemote == [repoExists |-> FALSE, projectExists |-> FALSE,
             projectId |-> "null", deployment |-> "none"]
NoPoll == [i |-> 0, fetches |-> 0, lastObserved |-> "none",
           lastOutcome |-> "none"]

\* a validation that skips the check of config.github
validationStatus_NoGithubCheck(req) ==
    IF ~req.ast \/ ~req.config \/ ~req.githubToken THEN 400
    ELSE IF ~req.vercelToken THEN 500
    ELSE 0

\* the three `return res.status(...)` checks before Step 1; 0: all passed
validationStatus(req) ==
    IF ~req.ast \/ ~req.config \/ ~req.githubToken THEN 400
    ELSE IF ~req.vercelToken THEN 500
    ELSE IF ~req.username \/ ~req.repoName THEN 400
    ELSE 0

validationError(req) ==
    IF ~req.ast \/ ~req.config \/ ~req.githubToken
    THEN "Missing required fields: ast, config, githubToken"
    ELSE IF ~req.vercelToken
    THEN "Vercel API token not configured. Please set VERCEL_API_TOKEN environment variable."
    ELSE "GitHub username and repository name are required"

\* a try block that goes on after a failed step
tryStep_Swallow(ok, next) == next

\* inside the handler's try block a failing step transfers control to the
\* catch block, a succeeding one to the next statement
tryStep(ok, next) == IF ok THEN next ELSE "catch"

\* an error path that forgets the temporary directory
tempDirAfterCatch_Leak(cleanupFlag, exists) == exists

\* `if (cleanup && fs.existsSync(tempDir)) fs.rmSync(tempDir, ...)`
tempDirAfterCatch(cleanupFlag, exists) ==
    IF cleanupFlag /\ exists THEN FALSE ELSE exists

failureResponse(message) ==
    [status |-> 500, success |-> FALSE, error |-> message]

successResponse ==
    [status |-> 200, success |-> TRUE, githubUrl |-> "githubRepo.html_url",
     vercelUrl |-> "deployment.url", deploymentId |-> "deployment.id",
     message |-> "SaaS deployed successfully!"]

\* `throw new Error(`Vercel deployment failed: ${error.message}`)`
vercelError(message) == <<"Vercel deployment failed: ">> \o message

timeoutMessage == <<"Deployment timeout - please check Vercel dashboard">>
deploymentFailedMessage == <<"Deployment failed">>

\* the handler's catch block
Catch(message) ==
    /\ tempDirExists' = tempDirAfterCatch(cleanup, tempDirExists)
    /\ deployResp' = failureResponse(message)
    /\ dpc' = "done"
    /\ UNCHANGED cleanup

firstFailure(step) == IF failedStep = "none" THEN step ELSE failedStep

\* a request to /api/deploy, up to the first await
DeployRequest(req, projectExists, mkdirOk) ==
    /\ dpc = "idle"
    /\ deployReq' = req
    /\ remote' = [remote EXCEPT !.projectExists = projectExists]
    /\ UNCHANGED <<poll, failedStep>>
    /\ IF req.method # "POST"
       THEN /\ deployResp' = [status |-> 405, error |-> "Method not allowed"]
            /\ dpc' = "done"
            /\ UNCHANGED <<tempDirExists, cleanup, calls>>
       ELSE IF req.bodyNull
       THEN \* destructuring req.body throws inside the try block
            /\ Catch(<<"TypeError">>)
            /\ UNCHANGED calls
       ELSE IF validationStatus(req) # 0
       THEN /\ deployResp' = [status |-> validationStatus(req),
                              error |-> validationError(req)]
            /\ dpc' = "done"
            /\ UNCHANGED <<tempDirExists, cleanup, calls>>
       ELSE IF tryStep(mkdirOk, "replay") = "catch"
       THEN /\ Catch(<<"mkdir failed">>)
            /\ calls' = Append(calls, "mkdir")
       ELSE /\ tempDirExists' = mkdirOk
            /\ calls' = calls \o <<"mkdir", "replay">>
            /\ dpc' = "replay"
            /\ UNCHANGED <<cleanup, deployResp>>
    /\ UNCHANGED <<buildVars, restVars>>

\* reconstructFilesFromAST settles; Steps 3 to 6 write the ancillary files
\* synchronously; Step 7 calls createGitHubRepo
ReplayDone(replayOk, writesOk) ==
    /\ dpc = "replay"
    /\ LET afterReplay == tryStep(replayOk, "ancillary")
           afterWrites == IF afterReplay = "catch" THEN "catch"
                          ELSE tryStep(writesOk, "createRepo")
       IN /\ failedStep' = IF ~replayOk THEN firstFailure("replay")
                           ELSE IF ~writesOk THEN firstFailure("ancillary")
                           ELSE failedStep
          /\ calls' = calls
                        \o (IF afterReplay = "catch" THEN << >> ELSE <<"ancillary">>)
                        \o (IF afterWrites = "catch" THEN << >> ELSE <<"createRepo">>)
          /\ IF afterWrites = "catch"
             THEN Catch(IF afterReplay = "catch" THEN <<"replay failed">>
                        ELSE <<"write failed">>)
             ELSE /\ dpc' = "createRepo"
                  /\ UNCHANGED <<tempDirExists, cleanup, deployResp>>
    /\ UNCHANGED <<deployReq, remote, poll>>
    /\ UNCHANGED <<buildVars, restVars>>

\* createGitHubRepo settles; Step 8 calls pushToGitHub
CreateRepoDone(ok) ==
    /\ dpc = "createRepo"
    /\ remote' = [remote EXCEPT !.repoExists = ok]
    /\ failedStep' = IF ok THEN failedStep ELSE firstFailure("createRepo")
    /\ IF tryStep(ok, "push") = "catch"
       THEN /\ Catch(<<"GitHub: repository not created">>)
            /\ UNCHANGED calls
       ELSE /\ dpc' = "push"
            /\ calls' = Append(calls, "push")
            /\ UNCHANGED <<tempDirExists, cleanup, deployResp>>
    /\ UNCHANGED <<deployReq, poll>>
    /\ UNCHANGED <<buildVars, restVars>>

\* pushToGitHub settles; Step 9 enters createAndDeployVercelProject, which
\* fetches the project by name
PushDone(ok) ==
    /\ dpc = "push"
    /\ failedStep' = IF ok THEN failedStep ELSE firstFailure("push")
    /\ IF tryStep(ok, "lookup") = "catch"
       THEN /\ Catch(<<"GitHub: push failed">>)
            /\ UNCHANGED calls
       ELSE /\ dpc' = "lookup"
            /\ calls' = Append(calls, "lookup")
            /\ UNCHANGED <<tempDirExists, cleanup, deployResp>>
    /\ UNCHANGED <<deployReq, remote, poll>>
    /\ UNCHANGED <<buildVars, restVars>>

\* what the GET of the project can produce
LookupOutcomes ==
    {"exception", "serverError"} \cup
    (IF remote.projectExists THEN {"ok"} ELSE {"notFound"})

\* the project lookup settles: an ok response gives the project id, anything
\* else (non-ok response, exception) leaves projectId null and the project
\* is created
LookupDone(outcome) ==
    /\ dpc = "lookup"
    /\ outcome \in LookupOutcomes
    /\ LET projectId == IF outcome = "ok" THEN "existing" ELSE "null"
       IN /\ remote' = [remote EXCEPT !.projectId = projectId]
          /\ IF projectId = "null"
             THEN /\ dpc' = "createProject"
                  /\ calls' = Append(calls, "createProject")
             ELSE /\ dpc' = "trigger"
                  /\ calls' = Append(calls, "trigger")
    /\ UNCHANGED <<deployReq, tempDirExists, cleanup, failedStep, poll, deployResp>>
    /\ UNCHANGED <<buildVars, restVars>>

\* the POST that creates the project settles; then the deployment is requested
CreateProjectDone(ok) ==
    /\ dpc = "createProject"
    /\ ~remote.projectExists \/ ~ok
    /\ failedStep' = IF ok THEN failedStep ELSE firstFailure("resolveProject")
    /\ IF tryStep(ok, "trigger") = "catch"
       THEN /\ Catch(vercelError(<<"provider message">>))
            /\ UNCHANGED <<calls, remote>>
       ELSE /\ dpc' = "trigger"
            /\ calls' = Append(calls, "trigger")
            /\ remote' = [remote EXCEPT !.projectId = IF ok THEN "created" ELSE @,
                                        !.projectExists = IF ok THEN TRUE ELSE @]
            /\ UNCHANGED <<tempDirExists, cleanup, deployResp>>
    /\ UNCHANGED <<deployReq, poll>>
    /\ UNCHANGED <<buildVars, restVars>>

\* the POST that creates the deployment settles; waitForDeployment starts and
\* sleeps before its first fetch
TriggerDone(ok) ==
    /\ dpc = "trigger"
    /\ failedStep' = IF ok THEN failedStep ELSE firstFailure("trigger")
    /\ IF tryStep(ok, "poll") = "catch"
       THEN /\ Catch(vercelError(<<"provider message">>))
            /\ UNCHANGED <<calls, remote, poll>>
       ELSE /\ remote' = [remote EXCEPT !.deployment = IF ok THEN "BUILDING" ELSE @]
            /\ calls' = Append(calls, "poll")
            /\ poll' = [poll EXCEPT !.i = 0]
            /\ dpc' = "sleep"
            /\ UNCHANGED <<tempDirExists, cleanup, deployResp>>
    /\ UNCHANGED deployReq
    /\ UNCHANGED <<buildVars, restVars>>

\* the 2 second timer of the loop body fires and the status fetch is sent
PollTimer ==
    /\ dpc = "sleep"
    /\ dpc' = "fetch"
    /\ poll' = [poll EXCEPT !.fetches = @ + 1]
    /\ UNCHANGED <<deployReq, tempDirExists, cleanup, calls, failedStep, remote,
                   deployResp>>
    /\ UNCHANGED <<buildVars, restVars>>

\* a loop body that takes every ok response for a ready deployment
pollVerdict_AnyOk(outcome, readyState) ==
    IF outcome = "ok" THEN "return" ELSE "continue"

\* a loop body without its catch: what is thrown leaves the loop
caught_Rethrow(inTry) == inTry

\* `catch (error) { // Continue polling }` around the body of the loop
caught(inTry) == IF inTry = "throw" THEN "continue" ELSE inTry

\* one body of the polling loop after its fetch settled: what the try block
\* does, and what is left of it after the catch that wraps the whole body
pollVerdict(outcome, readyState) ==
    LET inTry == IF outcome = "exception" THEN "throw"
                 ELSE IF outcome = "notOk" THEN "continue"
                 ELSE IF readyState = "READY" THEN "return"
                 ELSE IF readyState = "ERROR" THEN "throw"
                 ELSE "fallthrough"
    IN IF inTry = "return" THEN "return"
       ELSE IF caught(inTry) = "throw" THEN "throw"
       ELSE "continue"

\* a loop that runs its body once more than the budget
attemptsLeft_OneMore(i) == i < maxAttempts

\* `i++; i < maxAttempts` after the body of attempt i went on
attemptsLeft(i) == i + 1 < maxAttempts

\* the status fetch settles
PollFetchDone(outcome) ==
    /\ dpc = "fetch"
    /\ LET readyState == remote.deployment
           verdict == pollVerdict(outcome, readyState)
       IN /\ poll' = [poll EXCEPT
                         !.lastObserved = IF outcome = "ok" THEN readyState ELSE @,
                         !.lastOutcome = outcome,
                         !.i = IF verdict = "continue" THEN @ + 1 ELSE @]
          /\ IF verdict = "return"
             THEN \* Step 10 and the 200 answer
                  /\ tempDirExists' = FALSE
                  /\ cleanup' = FALSE
                  /\ deployResp' = successResponse
                  /\ dpc' = "done"
                  /\ UNCHANGED failedStep
             ELSE IF verdict = "throw"
             THEN \* an exception that leaves waitForDeployment
                  /\ Catch(vercelError(deploymentFailedMessage))
                  /\ failedStep' = firstFailure("poll")
             ELSE IF attemptsLeft(poll.i)
             THEN /\ dpc' = "sleep"
                  /\ UNCHANGED <<tempDirExists, cleanup, deployResp, failedStep>>
             ELSE /\ Catch(vercelError(timeoutMessage))
                  /\ failedStep' = firstFailure("poll")
    /\ UNCHANGED <<deployReq, calls, remote>>
    /\ UNCHANGED <<buildVars, restVars>>

\* the provider finishes the deployment, one way or the other
ProviderProgress(state) ==
    /\ dpc \in {"sleep", "fetch"}
    /\ remote.deployment = "BUILDING"
    /\ remote' = [remote EXCEPT !.deployment = state]
    /\ UNCHANGED <<dpc, deployReq, tempDirExists, cleanup, calls, failedStep,
                   poll, deployResp>>
    /\ UNCHANGED <<buildVars, restVars>>

NextDeploy ==
    \/ \E req \in DeployRequests, projectExists \in BOOLEAN, mkdirOk \in BOOLEAN :
          DeployRequest(req, projectExists, mkdirOk)
    \/ \E replayOk \in BOOLEAN, writesOk \in BOOLEAN : ReplayDone(replayOk, writesOk)
    \/ \E ok \in BOOLEAN : CreateRepoDone(ok)
    \/ \E ok \in BOOLEAN : PushDone(ok)
    \/ \E outcome \in {"ok", "notFound", "serverError", "exception"} :
          LookupDone(outcome)
    \/ \E ok \in BOOLEAN : CreateProjectDone(ok)
    \/ \E ok \in BOOLEAN : TriggerDone(ok)
    \/ PollTimer
    \/ \E outcome \in {"ok", "notOk", "exception"} : PollFetchDone(outcome)
    \/ \E state \in {"READY", "ERROR"} : ProviderProgress(state)

----------------------------------------------------------------------------
(* The environment file of a deployment *)

\* apiKeys of a request body: undefined, or an object whose keys hold
\* null, an empty object or an object with every field
NoApiKeys == [undefined |-> TRUE, keys |-> << >>]
NullGroup == [object |-> FALSE, fields |-> << >>]
EmptyGroup == [object |-> TRUE, fields |-> << >>]

GroupFields(group) ==
    CASE group = "firebase" -> <<"apiKey", "authDomain", "projectId",
                                 "storageBucket", "messagingSenderId", "appId">>
      [] group = "supabase" -> <<"url", "key">>
      [] group = "resend" -> <<"apiKey", "fromEmail">>
      [] group = "polar" -> <<"accessToken", "apiUrl", "webhookSecret">>
      [] OTHER -> <<"secretKey">>

\* a group with every field filled in; the value names group and field
FullGroup(group) ==
    [object |-> TRUE,
     fields |-> [k \in 1..Len(GroupFields(group)) |->
                    [name |-> GroupFields(group)[k],
                     value |-> <<group, GroupFields(group)[k]>>]]]

KnownGroups == {"firebase", "supabase", "resend", "polar"}
SentGroups == KnownGroups \cup {"stripe"}

ApiKeysInputs ==
    {NoApiKeys} \cup
    UNION {
        {[undefined |-> FALSE, keys |-> f] :
            f \in [present -> {"null", "empty", "full"}]}
        : present \in SUBSET SentGroups }

GroupOf(apiKeys, group) ==
    CASE apiKeys.keys[group] = "full" -> FullGroup(group)
      [] apiKeys.keys[group] = "empty" -> EmptyGroup
      [] OTHER -> NullGroup

\* a generator that writes the block of every group, sent or not
groupPresent_Always(apiKeys, group) == TRUE

\* `apiKeys?.firebase` as a condition
groupPresent(apiKeys, group) ==
    /\ ~apiKeys.undefined
    /\ group \in DOMAIN apiKeys.keys
    /\ GroupOf(apiKeys, group).object

\* `${apiKeys.group.field || default}`
fieldOr(apiKeys, group, field, default) ==
    IF apiKeys.undefined \/ group \notin DOMAIN apiKeys.keys THEN default
    ELSE LET fields == GroupOf(apiKeys, group).fields
             found == {k \in 1..Len(fields) : fields[k].name = field}
         IN IF found = {} THEN default
            ELSE fields[CHOOSE k \in found : TRUE].value

\* `KEY=${value}` as the pieces of one line
envLine(key, value) == <<key, "=">> \o value

\* envVars.join("\n"): the pieces of the lines with "\n" between the lines
RECURSIVE joinLines(_)
joinLines(lines) ==
    IF Len(lines) = 0 THEN << >>
    ELSE IF Len(lines) = 1 THEN lines[1]
    ELSE lines[1] \o <<"\n">> \o joinLines(Tail(lines))

generateEnvFile(apiKeys) ==
    LET firebase ==
            IF groupPresent(apiKeys, "firebase")
            THEN << <<"# Firebase Configuration">>,
                    envLine("NEXT_PUBLIC_FIREBASE_API_KEY",
                            fieldOr(apiKeys, "firebase", "apiKey", << >>)),
                    envLine("NEXT_PUBLIC_FIREBASE_AUTH_DOMAIN",
                            fieldOr(apiKeys, "firebase", "authDomain", << >>)),
                    envLine("NEXT_PUBLIC_FIREBASE_PROJECT_ID",
                            fieldOr(apiKeys, "firebase", "projectId", << >>)),
                    envLine("NEXT_PUBLIC_FIREBASE_STORAGE_BUCKET",
                            fieldOr(apiKeys, "firebase", "storageBucket", << >>)),
                    envLine("NEXT_PUBLIC_FIREBASE_MESSAGING_SENDER_ID",
                            fieldOr(apiKeys, "firebase", "messagingSenderId", << >>)),
                    envLine("NEXT_PUBLIC_FIREBASE_APP_ID",
                            fieldOr(apiKeys, "firebase", "appId", << >>)),
                    << >> >>
            ELSE << >>
        supabase ==
            IF groupPresent(apiKeys, "supabase")
            THEN << <<"# Supabase Configuration">>,
                    envLine("NEXT_PUBLIC_SUPABASE_URL",
                            fieldOr(apiKeys, "supabase", "url", << >>)),
                    envLine("NEXT_PUBLIC_SUPABASE_KEY",
                            fieldOr(apiKeys, "supabase", "key", << >>)),
                    << >> >>
            ELSE << >>
        resend ==
            IF groupPresent(apiKeys, "resend")
            THEN << <<"# Resend Email Configuration">>,
                    envLine("RESEND_API_KEY",
                            fieldOr(apiKeys, "resend", "apiKey", << >>)),
                    envLine("RESEND_FROM_EMAIL",
                            fieldOr(apiKeys, "resend", "fromEmail", << >>)),
                    << >> >>
            ELSE << >>
        polar ==
            IF groupPresent(apiKeys, "polar")
            THEN << <<"# Polar Payments Configuration">>,
                    envLine("POLAR_ACCESS_TOKEN",
                            fieldOr(apiKeys, "polar", "accessToken", << >>)),
                    envLine("POLAR_API_URL",
                            fieldOr(apiKeys, "polar", "apiUrl",
                                    <<"https://api.polar.sh">>)),
                    envLine("POLAR_WEBHOOK_SECRET",
                            fieldOr(apiKeys, "polar", "webhookSecret", << >>)),
                    << >> >>
            ELSE << >>
    IN joinLines(firebase \o supabase \o resend \o polar)

\* generateEnvFile(apiKeys) called on its own
EnvCall(apiKeys) ==
    /\ callArgs = NoCall
    /\ callArgs' = [fn |-> "generateEnvFile", apiKeys |-> apiKeys]
    /\ callResult' = [fn |-> "generateEnvFile",
                      content |-> generateEnvFile(apiKeys)]
    /\ UNCHANGED <<buildVars, deployVars, zipReq, zip, firstResp, ui, clock, jobs>>

NextEnv == \E apiKeys \in ApiKeysInputs : EnvCall(apiKeys)

----------------------------------------------------------------------------
(* The builder page (BuildForm): exclusion list, cached tree, deploy *)

\* useState([...]): the exclusion list of a freshly loaded page
initialExcludeFiles ==
    << <<"p","a","g","e","s","/","d","o","c","s",".","j","s">>,
       <<"R","E","A","D","M","E",".","m","d">>,
       <<".","g","i","t","i","g","n","o","r","e">>,
       <<".","e","s","l","i","n","t","r","c",".","j","s","o","n">>,
       <<".","p","r","e","t","t","i","e","r","r","c">>,
       <<"p","a","g","e","s","/","b","u","i","l","d","e","r",".","j","s">>,
       <<".","c","u","r","s","o","r">>,
       <<"p","u","b","l","i","c","/","d","o","c","s">>,
       <<"p","u","b","l","i","c","/","z","i","p","-","f","i","l","e","s">>,
       <<"p","a","g","e","s","/","a","p","i","/","b","u","i","l","d","e","r">>,
       <<"p","a","g","e","s","/","a","p","i","/","d","e","p","l","o","y">>,
       <<"p","a","g","e","s","/","a","p","i","/","s","e","e","d","-","d","a","t","a","b","a","s","e",".","j","s">>,
       <<"l","i","b","/","u","t","i","l","s","/","a","s","t","T","o","T","o","o","n",".","j","s">>,
       <<"l","i","b","/","g","i","t","h","u","b",".","j","s">> >>

\* e.target.value.split("\n")
RECURSIVE SplitLines(_, _)
SplitLines(text, line) ==
    IF Len(text) = 0 THEN <<line>>
    ELSE IF Head(text) = "\n"
    THEN <<line>> \o SplitLines(Tail(text), EmptyString)
    ELSE SplitLines(Tail(text), Append(line, Head(text)))

\* onChange of the exclusion textarea: the lines whose trim() is not empty
SetExcludeFiles(text) ==
    /\ ui' = [ui EXCEPT !.excludeFiles =
                 SelectSeq(SplitLines(text, EmptyString),
                           LAMBDA line : \E k \in 1..Len(line) :
                                             line[k] \notin {" ", "\t"})]
    /\ UNCHANGED <<buildVars, deployVars, zipReq, zip, firstResp, callArgs,
                   callResult, clock, jobs>>

\* the tree tab is opened: `if (!astTreeData && !astTreeLoading)
\* await fetchAST(true)`, which keeps the data of an ok answer
OpenTreeTab ==
    /\ ui.astTreeData = Null
    /\ LET data == buildResponseOf(ui.excludeFiles, TRUE)
       IN ui' = [ui EXCEPT !.astTreeData =
                    IF data.status = 200 THEN data ELSE @]
    /\ UNCHANGED <<buildVars, deployVars, zipReq, zip, firstResp, callArgs,
                   callResult, clock, jobs>>

\* handleDeploy: after the validation of the form the tree to deploy is the
\* one the page holds, or, if it holds none, one fetched with the current
\* list; it is posted to /api/deploy
HandleDeploy(valid) ==
    /\ LET cached == ui.astTreeData
           data == IF cached # Null THEN cached
                   ELSE buildResponseOf(ui.excludeFiles, TRUE)
       IN IF ~valid \/ data.status # 200
          THEN UNCHANGED ui
          ELSE ui' = [ui EXCEPT !.astTreeData = data,
                                !.deployStartedWith = ui.excludeFiles,
                                !.deployBody = [ast |-> data.ast]]
    /\ UNCHANGED <<buildVars, deployVars, zipReq, zip, firstResp, callArgs,
                   callResult, clock, jobs>>

\* the project directory gets its files, then the page is used
NextClient ==
    \/ /\ ui.astTreeData = Null
       /\ ui.deployBody = Null
       /\ \E name \in Names : CreateEntry(ProjectRoot, name, TextFile)
    \/ \E text \in { << >>, <<"b">>, <<"b", "\n", " ", "\n", "*", "c">> } :
          SetExcludeFiles(text)
    \/ OpenTreeTab
    \/ \E valid \in BOOLEAN : HandleDeploy(valid)

----------------------------------------------------------------------------
(* Deploy requests served side by side and their temporary directories *)

\* path.join(process.cwd(), "temp", `deploy-${Date.now()}`)
tempDirOf(now) ==
    PathJoin(PathJoin(ProjectRoot, <<"t","e","m","p">>),
             <<"d","e","p","l","o","y","-">> \o <<ToString(now)>>)

\* fs.mkdirSync(dir, { recursive: true }) on disk d: the missing directories
\* are created, an existing one is left as it is
RECURSIVE mkdirSync(_, _)
mkdirSync(d, dir) ==
    IF dir \in DOMAIN d THEN d
    ELSE LET parent == SubSeq(dir, 1, Len(dir) - 1)
             up == mkdirSync(d, parent)
         IN [q \in DOMAIN up \cup {dir} |->
               IF q = dir THEN EmptyDir
               ELSE IF q = parent
               THEN [up[q] EXCEPT !.listing = Append(@, dir[Len(dir)])]
               ELSE up[q]]

\* fs.rmSync(dir, { recursive: true, force: true }) on disk d
rmSync(d, dir) ==
    LET parent == SubSeq(dir, 1, Len(dir) - 1)
        gone(q) == Len(q) >= Len(dir) /\ SubSeq(q, 1, Len(dir)) = dir
    IN [q \in {x \in DOMAIN d : ~gone(x)} |->
          IF q = parent
          THEN [d[q] EXCEPT !.listing =
                   SelectSeq(d[q].listing, LAMBDA n : n # dir[Len(dir)])]
          ELSE d[q]]

\* a valid deploy request arrives: Steps 1 to 3 create the directory named
\* after the clock, replay the tree into it and write .env.local; then the
\* handler awaits the remote steps
DeployStart(j, ast) ==
    /\ jobs[j].pc = "idle"
    /\ LET tempDir == tempDirOf(clock)
           envName == <<".","e","n","v",".","l","o","c","a","l">>
           \* the entries of `written` put on disk d; a directory that is
           \* already there keeps the names it lists
           writeFiles(d, written) ==
               [q \in DOMAIN d \cup DOMAIN written |->
                  IF q \notin DOMAIN written THEN d[q]
                  ELSE IF q \in DOMAIN d /\ d[q].kind = "dir"
                          /\ written[q].kind = "dir"
                  THEN [d[q] EXCEPT !.listing = d[q].listing \o
                           SelectSeq(written[q].listing,
                                     LAMBDA n : ~Includes(d[q].listing, n))]
                  ELSE written[q]]
           made == mkdirSync(disk, tempDir)
           replayed == writeFiles(made, reconstructFilesFromAST(ast, tempDir))
       IN /\ disk' = writeFiles(replayed,
                         (tempDir :> [kind |-> "dir", listing |-> <<envName>>])
                         @@ (PathJoin(tempDir, envName) :> EmptyFile))
          /\ jobs' = [jobs EXCEPT ![j] = [pc |-> "remote", tempDir |-> tempDir]]
    /\ UNCHANGED <<buildResp, buildReq, deployVars, zipReq, zip, firstResp,
                   callArgs, callResult, ui, clock>>

\* the remote steps of a request settle: Step 10 removes the directory, and
\* so does the catch block (`cleanup && fs.existsSync(tempDir)`)
DeployEnd(j, ok) ==
    /\ jobs[j].pc = "remote"
    /\ disk' = IF ok \/ jobs[j].tempDir \in DOMAIN disk
               THEN rmSync(disk, jobs[j].tempDir)
               ELSE disk
    /\ jobs' = [jobs EXCEPT ![j] = [pc |-> "done", tempDir |-> NoPath]]
    /\ UNCHANGED <<buildResp, buildReq, deployVars, zipReq, zip, firstResp,
                   callArgs, callResult, ui, clock>>

\* a millisecond passes
Tick ==
    /\ clock < MaxClock
    /\ clock' = clock + 1
    /\ UNCHANGED <<buildVars, deployVars, zipReq, zip, firstResp, callArgs,
                   callResult, ui, jobs>>

\* two deploy requests, and a build and an archive request served meanwhile
NextTempDir ==
    \/ \E j \in DOMAIN jobs, name \in {N_a, N_b} :
          DeployStart(j, directoryNodeOf(N_app, EmptyString,
                            <<fileNodeOf(TextFile, name, name, TRUE)>>))
    \/ \E j \in DOMAIN jobs, ok \in BOOLEAN : DeployEnd(j, ok)
    \/ Tick
    \/ BuildRequest([method |-> "POST", excludeFiles |-> << >>,
                     includeContent |-> FALSE])
    \/ ZipRequest([method |-> "POST", bodyNull |-> FALSE,
                   excludeFiles |-> << >>])

----------------------------------------------------------------------------
(* Specifications *)

Init ==
    /\ disk = [p \in {ProjectRoot} |-> EmptyDir]
    /\ buildResp = NoResponse
    /\ buildReq = NoRequest
    /\ dpc = "idle"
    /\ deployReq = NoDeployRequest
    /\ tempDirExists = FALSE
    /\ cleanup = TRUE
    /\ calls = << >>
    /\ failedStep = "none"
    /\ remote = NoRemote
    /\ poll = NoPoll
    /\ deployResp = NoResponse
    /\ zipReq = NoZipRequest
    /\ zip = NoZip
    /\ firstResp = NoResponse
    /\ callArgs = NoCall
    /\ callResult = NoResult
    /\ ui = [excludeFiles |-> initialExcludeFiles, astTreeData |-> Null,
             deployStartedWith |-> << >>, deployBody |-> Null]
    /\ clock = 0
    /\ jobs = [j \in {"first", "second"} |-> [pc |-> "idle", tempDir |-> NoPath]]

\* the tree builder serving a build request on a changing project directory
SpecBuild == Init /\ [][NextBuild]_vars

\* the deploy handler serving one deploy request
SpecDeploy == Init /\ [][NextDeploy]_vars

\* the same, with the timer of the polling loop firing and every status
\* fetch settling
SpecPoll ==
    /\ Init /\ [][NextDeploy]_vars
    /\ WF_vars(PollTimer)
    /\ WF_vars(\E outcome \in {"ok", "notOk", "exception"} : PollFetchDone(outcome))

\* the same project directory built as a tree and queued as an archive
SpecArchive == Init /\ [][NextArchive]_vars

\* the download-zip handler and the events of its archive stream
SpecZipStream == Init /\ [][NextZipStream]_vars

\* a tree built with content, replayed, and built again from the replay
SpecRoundTrip == Init /\ [][NextRoundTrip]_vars

\* the environment file generated for every shape of apiKeys
SpecEnv == Init /\ [][NextEnv]_vars

\* the two exclusion matchers called on paths and pattern lists
SpecMatcher == Init /\ [][NextMatcher]_vars

\* the tree builder on a flat directory with files of every kind
SpecFiles == Init /\ [][NextFiles]_vars

\* the builder page fetching trees and starting deploys
SpecClient == Init /\ [][NextClient]_vars

\* two deploy requests in flight on the server's disk
SpecTempDir == Init /\ [][NextTempDir]_vars

----------------------------------------------------------------------------
(* Properties of the deploy handler *)

deployDone == dpc = "done"
Has(call) == \E k \in 1..Len(calls) : calls[k] = call

\* C2: once a deploy request that created its temporary directory has been
\* answered, with success or with the failure of any step, the directory
\* is gone.
C2_TempDirRemoved == (deployDone /\ Has("mkdir")) => ~tempDirExists

\* answered with a failure raised while the directory held the replayed tree
C2_Witness ==
    /\ deployDone
    /\ Has("replay")
    /\ failedStep \in {"replay", "ancillary", "createRepo", "push",
                       "resolveProject", "trigger", "poll"}
    /\ deployResp.status = 500

\* C3: a poll that observes ERROR fails the poller at once: the request is
\* answered with a failure, no further fetch is made, and never a success.
C3_ErrorFailsImmediately ==
    poll.lastObserved = "ERROR" => (deployDone /\ deployResp.status = 500)

\* the pipeline step a remote call belongs to
StepOfCall(call) ==
    IF call \in {"lookup", "createProject"} THEN "resolveProject" ELSE call

\* C4: the failure of a step ends the pipeline: the request is answered
\* `{ success: false, error }`, the failed step is the last one started,
\* no step is started twice, and after a failed repository creation neither
\* push nor project lookup/creation nor deployment trigger is started.
C4_FailureAborts ==
    /\ \A i, j \in 1..Len(calls) : i < j => calls[i] # calls[j]
    /\ failedStep # "none" =>
          /\ deployDone
          /\ StepOfCall(calls[Len(calls)]) = failedStep
          /\ DOMAIN deployResp = {"status", "success", "error"}
          /\ deployResp.success = FALSE
    /\ failedStep = "createRepo" =>
          ~(Has("push") \/ Has("lookup") \/ Has("createProject") \/ Has("trigger"))

\* repository creation failed and the request has been answered
C4_Witness ==
    /\ deployDone
    /\ failedStep = "createRepo"
    /\ calls[Len(calls)] = "createRepo"

PipelineOrders ==
    { <<"mkdir", "replay", "ancillary", "createRepo", "push", "lookup",
        "trigger", "poll">>,
      <<"mkdir", "replay", "ancillary", "createRepo", "push", "lookup",
        "createProject", "trigger", "poll">> }

\* C5: success is answered only after replay, ancillary writes, repository
\* creation, push, project resolution, trigger and polling ran in this order
\* without a failure and a poll saw READY; and a run in which no step failed
\* and a poll saw READY is answered with success and the three result fields.
C5_SuccessIffAllSteps ==
    /\ (deployDone /\ deployResp.status = 200) =>
          /\ calls \in PipelineOrders
          /\ failedStep = "none"
          /\ poll.lastObserved = "READY"
          /\ remote.repoExists
          /\ remote.projectId # "null"
          /\ deployResp.success = TRUE
          /\ {"githubUrl", "vercelUrl", "deploymentId"} \subseteq DOMAIN deployResp
    /\ (failedStep = "none" /\ poll.lastObserved = "READY") =>
          (deployDone /\ deployResp.status = 200)

\* a success answered after the project had to be created
C5_Witness ==
    /\ deployDone
    /\ deployResp.status = 200
    /\ Has("createProject")
    /\ poll.fetches > 1

Lacking(req) ==
    \/ req.bodyNull
    \/ ~req.ast \/ ~req.config \/ ~req.githubToken
    \/ ~req.username \/ ~req.repoName
    \/ ~req.vercelToken

NoSideEffect ==
    /\ calls = << >>
    /\ ~tempDirExists
    /\ ~remote.repoExists
    /\ remote.deployment = "none"
    /\ poll.fetches = 0

\* C6 as stated: a request lacking an input or the server-side token is
\* answered at once with a 4xx status and without any side effect.
C6_RejectedWith4xx ==
    (dpc # "idle" /\ Lacking(deployReq)) =>
        /\ deployDone
        /\ deployResp.status \in 400..499
        /\ NoSideEffect

\* a POST whose body is null, or which has tree, config and repository token
\* while the server has no deployment-provider token
AnsweredAsServerError(req) ==
    /\ req.method = "POST"
    /\ \/ req.bodyNull
       \/ req.ast /\ req.config /\ req.githubToken /\ ~req.vercelToken

\* C6 amended: such a request is answered at once without any side effect;
\* the status is 500 when a POST has a null body or has tree, config and
\* repository token while the server-side token is not configured, and a
\* 4xx status (405 for another method, else 400) in every other case.
C6_RejectedWithoutSideEffect ==
    (dpc # "idle" /\ Lacking(deployReq)) =>
        /\ deployDone
        /\ NoSideEffect
        /\ AnsweredAsServerError(deployReq) => deployResp.status = 500
        /\ ~AnsweredAsServerError(deployReq) =>
              deployResp.status = IF deployReq.method = "POST" THEN 400 ELSE 405

\* a complete request answered while the server has no provider token
C6_Witness ==
    /\ deployDone
    /\ deployReq.method = "POST"
    /\ deployReq.ast /\ deployReq.config /\ deployReq.githubToken
    /\ deployReq.username /\ deployReq.repoName
    /\ ~deployReq.vercelToken
    /\ deployResp.status = 500

ReportsTimeout(resp) == resp.error = vercelError(timeoutMessage)

\* C7: a failed polling is reported as a timeout exactly when no poll saw
\* the deployment in ERROR; an ERROR deployment is never reported as timeout.
C7_TimeoutDistinctFromError ==
    (deployDone /\ failedStep = "poll") =>
        (ReportsTimeout(deployResp) <=> poll.lastObserved # "ERROR")

\* C8: a deploy that fails after its repository was created leaves the
\* repository, removes the temporary directory, and its answer tells the
\* caller that the repository exists.
C8_PartialSuccessCommunicated ==
    (deployDone /\ remote.repoExists /\ deployResp.status # 200) =>
        /\ ~tempDirExists
        /\ "githubUrl" \in DOMAIN deployResp

polling == dpc \in {"sleep", "fetch"}
timedOut ==
    /\ deployDone
    /\ failedStep = "poll"
    /\ deployResp.status = 500
    /\ ReportsTimeout(deployResp)
succeeded == deployDone /\ deployResp.status = 200

\* C24: the poller always terminates: it makes at most maxAttempts status
\* fetches, each one after the timer of its attempt, answers with success at
\* the first fetch that observes READY, fails with the timeout once the
\* budget is used up, and makes no fetch after it returned.
C24_PollerTerminates ==
    /\ [](poll.fetches <= maxAttempts)
    /\ [][(dpc # "fetch" /\ dpc' = "fetch") => dpc = "sleep"]_vars
    /\ [][poll'.fetches # poll.fetches =>
            (dpc = "sleep" /\ poll'.fetches = poll.i + 1)]_vars
    /\ [](poll.lastObserved = "READY" => succeeded)
    /\ []((deployDone /\ Has("poll") /\ poll.lastObserved # "READY") =>
            (timedOut /\ poll.fetches = maxAttempts))
    /\ [][deployDone => poll' = poll]_vars
    /\ (polling ~> deployDone)

\* the budget was used up and the request answered with the timeout
C24_Witness ==
    /\ timedOut
    /\ poll.fetches = maxAttempts
    /\ poll.i = maxAttempts

failedFetch(outcome) == outcome \in {"notOk", "exception"}

\* C25: the project is created only when none exists: after a lookup that
\* found the project no create call is made, at most one create call is
\* made per deploy, and the create call is made only when the project is
\* absent, not when the lookup merely failed.
C25_CreateOnlyWhenAbsent ==
    /\ []((Has("createProject") /\ dpc # "createProject") =>
            remote.projectId # "existing")
    /\ [](\A i, j \in 1..Len(calls) :
            (i < j /\ calls[i] = "createProject") => calls[j] # "createProject")
    /\ [][(dpc = "lookup" /\ dpc' = "createProject") => ~remote.projectExists]_vars

\* C30: a status fetch that fails, by an exception or a non-OK response,
\* uses up one attempt and nothing else: with attempts left the poller
\* sleeps again and the request stays unanswered, and a later fetch that
\* observes READY is answered with success.
C30_FailedFetchContinues ==
    /\ [][(dpc = "fetch" /\ dpc' # "fetch" /\ failedFetch(poll'.lastOutcome)) =>
            /\ poll'.i = poll.i + 1
            /\ poll'.fetches = poll.fetches
            /\ poll.i + 1 < maxAttempts =>
                  /\ dpc' = "sleep"
                  /\ deployResp' = NoResponse
                  /\ failedStep' = "none"]_vars
    /\ [][(dpc = "fetch" /\ poll'.lastOutcome = "ok" /\ remote.deployment = "READY")
            => succeeded']_vars

\* a fetch failed, an attempt is used up and the poller sleeps again
C30_Witness ==
    /\ dpc = "sleep"
    /\ failedFetch(poll.lastOutcome)
    /\ poll.i \in 1..(maxAttempts - 1)
    /\ remote.deployment = "READY"
    /\ deployResp = NoResponse

----------------------------------------------------------------------------
(* Properties of the builder page and of deploys in flight *)

\* C26: the tree posted by a deploy was built with the exclusion list the
\* page held when the deploy was started: it is the tree a build with that
\* list returns.
C26_TreeOfCurrentList ==
    ui.deployBody # Null =>
        LET fresh == buildResponseOf(ui.deployStartedWith, TRUE)
        IN fresh.status = 200 /\ ui.deployBody.ast = fresh.ast

inFlight(j) == jobs[j].pc = "remote"

\* C27: two deploy requests in flight never have the same temporary
\* directory, and the directory of a request in flight is on disk: no other
\* request wrote into it or removed it.
C27_TempDirsApart ==
    /\ \A j1, j2 \in DOMAIN jobs :
          (j1 # j2 /\ inFlight(j1) /\ inFlight(j2)) =>
              jobs[j1].tempDir # jobs[j2].tempDir
    /\ \A j \in DOMAIN jobs : inFlight(j) => jobs[j].tempDir \in DOMAIN disk

\* a relative path below a temporary directory of the deploy handler
UnderTempDir(relativePath) ==
    StartsWith(relativePath,
               <<"t","e","m","p">> \o Sep \o <<"d","e","p","l","o","y","-">>)

\* C28: a tree or an archive served while a deploy is in flight holds no
\* node and no entry below the deploy's temporary directory (such a
\* directory is on disk only while a deploy is in flight).
C28_TempDirNotServed ==
    /\ built => \A n \in NodesOf(buildResp.ast) : ~UnderTempDir(n.path)
    /\ zipped => \A i \in 1..Len(zip.entries) : ~UnderTempDir(zip.entries[i].name)

----------------------------------------------------------------------------
(* Properties of the environment file *)

\* the blocks of the environment file as a table: label, then variable,
\* field and default of every line
EnvTable ==
    << [group |-> "firebase", label |-> "# Firebase Configuration",
        lines |-> << <<"NEXT_PUBLIC_FIREBASE_API_KEY", "apiKey", << >> >>,
                     <<"NEXT_PUBLIC_FIREBASE_AUTH_DOMAIN", "authDomain", << >> >>,
                     <<"NEXT_PUBLIC_FIREBASE_PROJECT_ID", "projectId", << >> >>,
                     <<"NEXT_PUBLIC_FIREBASE_STORAGE_BUCKET", "storageBucket", << >> >>,
                     <<"NEXT_PUBLIC_FIREBASE_MESSAGING_SENDER_ID",
                       "messagingSenderId", << >> >>,
                     <<"NEXT_PUBLIC_FIREBASE_APP_ID", "appId", << >> >> >>],
       [group |-> "supabase", label |-> "# Supabase Configuration",
        lines |-> << <<"NEXT_PUBLIC_SUPABASE_URL", "url", << >> >>,
                     <<"NEXT_PUBLIC_SUPABASE_KEY", "key", << >> >> >>],
       [group |-> "resend", label |-> "# Resend Email Configuration",
        lines |-> << <<"RESEND_API_KEY", "apiKey", << >> >>,
                     <<"RESEND_FROM_EMAIL", "fromEmail", << >> >> >>],
       [group |-> "polar", label |-> "# Polar Payments Configuration",
        lines |-> << <<"POLAR_ACCESS_TOKEN", "accessToken", << >> >>,
                     <<"POLAR_API_URL", "apiUrl", <<"https://api.polar.sh">> >>,
                     <<"POLAR_WEBHOOK_SECRET", "webhookSecret", << >> >> >>] >>

\* the groups a request actually holds
GroupsSent(apiKeys) ==
    IF apiKeys.undefined THEN {}
    ELSE {g \in DOMAIN apiKeys.keys : apiKeys.keys[g] # "null"}

\* the lines of one block for the values the request holds
BlockLines(apiKeys, row) ==
    LET sent == apiKeys.keys[row.group] = "full"
    IN <<<<row.label>>>> \o
       [k \in 1..Len(row.lines) |->
            <<row.lines[k][1], "=">> \o
            (IF sent THEN <<row.group, row.lines[k][2]>> ELSE row.lines[k][3])]
       \o << << >> >>

RECURSIVE ExpectedLines(_, _)
ExpectedLines(apiKeys, k) ==
    IF k > Len(EnvTable) THEN << >>
    ELSE (IF EnvTable[k].group \in GroupsSent(apiKeys)
          THEN BlockLines(apiKeys, EnvTable[k]) ELSE << >>)
         \o ExpectedLines(apiKeys, k + 1)

RECURSIVE LinesOf(_, _)
LinesOf(content, line) ==
    IF Len(content) = 0 THEN <<line>>
    ELSE IF Head(content) = "\n" THEN <<line>> \o LinesOf(Tail(content), << >>)
    ELSE LinesOf(Tail(content), Append(line, Head(content)))

generated == callResult.fn = "generateEnvFile"

\* C18: the environment file is, in the order firebase, supabase, resend,
\* polar, one labeled block of key=value lines for each group the request
\* holds; a group that is not sent adds no line, a key that names no known
\* provider is ignored, and without any group the content is empty.
C18_EnvFileBlocks ==
    generated =>
        LET apiKeys == callArgs.apiKeys
            expected == ExpectedLines(apiKeys, 1)
        IN /\ callResult.content # << >> =>
                 LinesOf(callResult.content, << >>) = expected
           /\ callResult.content = << >> <=> expected = << >>
           /\ GroupsSent(apiKeys) \cap KnownGroups = {} =>
                 callResult.content = << >>

\* apiKeys with two known groups, one of them with values, a known key that
\* holds nothing and a key that names no known provider
C18_Witness ==
    /\ generated
    /\ ~callArgs.apiKeys.undefined
    /\ DOMAIN callArgs.apiKeys.keys = {"supabase", "polar", "stripe"}
    /\ callArgs.apiKeys.keys["supabase"] = "full"
    /\ callArgs.apiKeys.keys["polar"] = "empty"
    /\ callArgs.apiKeys.keys["stripe"] = "full"
    /\ Len(LinesOf(callResult.content, << >>)) = 9

====
